---- MODULE Spec2Model ----
(***************************************************************************)
(* The label and task endpoint wrappers of the influxdb2 client            *)
(* (src/api/label.rs, src/api/task.rs).                                    *)
(*                                                                         *)
(* A client holds its configuration (url, token).  Every call of an        *)
(* operation is an async function: it builds one request, sends it, waits  *)
(* for the response, branches on the status and, where the code does so,   *)
(* waits for the body.  calls[c] is the position and the locals of call c. *)
(* Strings that the code formats or serializes (URLs, query strings, JSON  *)
(* bodies) are sequences of lexical tokens, built the way the code and its *)
(* serializers build them.                                                 *)
(***************************************************************************)
EXTENDS Integers, Sequences, FiniteSets, TLC

VARIABLES url, token, calls

vars == <<url, token, calls>>

(* ------------------------------ bounds -------------------------------- *)

\* Number of calls that may be in flight at once on one client.
NumCalls == 2

\* Number of distinct string values an argument may take.
NumStr == 1

(* ------------------------- program constants -------------------------- *)

OK == 200

CREATED == 201

NO_CONTENT == 204

(* ------------------------------ inputs -------------------------------- *)

Calls == 1..NumCalls

\* Option::None
None == "None"

Strs == {"s" \o ToString(i) : i \in 1..NumStr}

Opt(S) == S \cup {None}

Urls == {"http://host"}

Tokens == {"some-token", "other-token"}

\* Status codes a server may answer with.
Statuses == {200, 201, 202, 204, 404, 500}

LabelsDoc == "{\"labels\":[]}"

LabelDoc == "{\"label\":{}}"

TasksDoc == "{\"tasks\":[]}"

\* A body whose transfer fails before it was read whole.
Unreadable == "<unreadable>"

\* Bodies a response may carry.
Texts == {LabelsDoc, LabelDoc, TasksDoc, "not json"}

Bodies == Texts \cup {Unreadable}

ArgNames ==
    {"org_id", "name", "properties", "label_id", "task_id", "after", "limit",
     "org", "status", "type_", "user", "flux", "description"}

NoArgs == [a \in ArgNames |-> None]

ListTasksFields ==
    {"after", "limit", "name", "org", "org_id", "status", "type_", "user"}

\* struct ListTasksRequest: eight optional filters.
ListTasksRequest(S) == [ListTasksFields -> Opt(S)]

\* struct CreateTaskRequest: flux is required, the rest optional.
CreateTaskRequest(S) ==
    [flux : S, description : Opt(S), org : Opt(S), org_id : Opt(S),
     status : Opt(S)]

(* ---------------------------- serializers ----------------------------- *)

RECURSIVE QsJoin(_)
\* key=value pairs joined by "&".
QsJoin(ps) ==
    IF ps = <<>> THEN <<>>
    ELSE IF Len(ps) = 1 THEN <<ps[1][1], "=", ps[1][2]>>
    ELSE <<ps[1][1], "=", ps[1][2], "&">> \o QsJoin(Tail(ps))

\* Mutant of serde_qs_to_string: the serde renames are missing.
serde_qs_to_string_unrenamed(request) ==
    QsJoin(SelectSeq(<< <<"after", request.after>>,
                        <<"limit", request.limit>>,
                        <<"name", request.name>>,
                        <<"org", request.org>>,
                        <<"org_id", request.org_id>>,
                        <<"status", request.status>>,
                        <<"type_", request.type_>>,
                        <<"user", request.user>> >>,
                     LAMBDA f : f[2] # None))

\* serde_qs::to_string of a ListTasksRequest: the fields in declaration
\* order under their serde names; a None field emits nothing.
serde_qs_to_string(request) ==
    QsJoin(SelectSeq(<< <<"after", request.after>>,
                        <<"limit", request.limit>>,
                        <<"name", request.name>>,
                        <<"org", request.org>>,
                        <<"orgID", request.org_id>>,
                        <<"status", request.status>>,
                        <<"type", request.type_>>,
                        <<"user", request.user>> >>,
                     LAMBDA f : f[2] # None))

RECURSIVE JsonJoin(_)
\* "key":value members joined by ","; a None that is not skipped is null.
JsonJoin(fs) ==
    IF fs = <<>> THEN <<>>
    ELSE LET v == IF fs[1][2] = None THEN "null" ELSE fs[1][2]
         IN IF Len(fs) = 1 THEN <<fs[1][1], ":", v>>
            ELSE <<fs[1][1], ":", v, ",">> \o JsonJoin(Tail(fs))

\* serde_json::to_string of a struct whose fields are <<key, value, skip>>:
\* skip is skip_serializing_if = "Option::is_none".
serde_json_to_string(fields) ==
    <<"{">> \o JsonJoin(SelectSeq(fields, LAMBDA f : ~(f[3] /\ f[2] = None)))
            \o <<"}">>

\* Mutant of CreateTaskRequestJson: skip_serializing_if is missing.
CreateTaskRequestJson_nulls(request) ==
    serde_json_to_string(<< <<"flux", request.flux, FALSE>>,
                            <<"description", request.description, FALSE>>,
                            <<"org", request.org, FALSE>>,
                            <<"orgID", request.org_id, FALSE>>,
                            <<"status", request.status, FALSE>> >>)

\* #[derive(Serialize)] of CreateTaskRequest.
CreateTaskRequestJson(request) ==
    serde_json_to_string(<< <<"flux", request.flux, FALSE>>,
                            <<"description", request.description, TRUE>>,
                            <<"org", request.org, TRUE>>,
                            <<"orgID", request.org_id, TRUE>>,
                            <<"status", request.status, TRUE>> >>)

\* #[derive(Serialize)] of models::LabelCreateRequest.
LabelCreateRequestJson(body) ==
    serde_json_to_string(<< <<"orgID", body.org_id, FALSE>>,
                            <<"name", body.name, FALSE>>,
                            <<"properties", body.properties, TRUE>> >>)

\* #[derive(Serialize)] of models::LabelUpdate.
LabelUpdateJson(body) ==
    serde_json_to_string(<< <<"name", body.name, TRUE>>,
                            <<"properties", body.properties, TRUE>> >>)

(* ------------------------------ results ------------------------------- *)

NoResult ==
    [kind |-> "None", type |-> "", value |-> "", status |-> 0, text |-> "",
     source |-> ""]

\* Ok(value) of type T.
Ok(T, value) == [NoResult EXCEPT !.kind = "Ok", !.type = T, !.value = value]

\* RequestError::ReqwestProcessing { source }: source is the reqwest call
\* that failed.
ReqwestProcessing(source) ==
    [NoResult EXCEPT !.kind = "ReqwestProcessing", !.source = source]

\* RequestError::Serializing { source }
Serializing == [NoResult EXCEPT !.kind = "Serializing", !.source = "serde_json"]

\* RequestError::Http { status, text }
Http(status, text) ==
    [NoResult EXCEPT !.kind = "Http", !.status = status, !.text = text]

(* ------------------------------- calls -------------------------------- *)

NoResponse == [status |-> 0, body |-> ""]

IdleCall ==
    [pc |-> "idle", op |-> "", args |-> NoArgs, ser |-> "", sent |-> <<>>,
     response |-> NoResponse, decode |-> "", result |-> NoResult]

\* A call of operation op with arguments args (the parameters it names).
Begin(op, args) == [IdleCall EXCEPT !.op = op, !.args = args @@ NoArgs]

\* The Result of the call's serializer (serde_json::to_string,
\* serde_qs::to_string): Ok or Err.
Serialized(call, ok) == [call EXCEPT !.ser = IF ok THEN "Ok" ELSE "Err"]

\* Client::request(method, url): a request builder with the client's
\* Authorization header attached.
request(method, target) ==
    [method |-> method, url |-> target,
     authorization |-> "Token " \o token, body |-> <<>>]

\* RequestBuilder::body
WithBody(req, body) == [req EXCEPT !.body = body]

\* RequestBuilder::query(&[(key, value)])
WithQuery(req, key, value) ==
    [req EXCEPT !.url = @ \o <<"?", key, "=", value>>]

\* RequestBuilder::send(): the request goes out and the call awaits.
Send(call, req) == [call EXCEPT !.pc = "send", !.sent = Append(@, req)]

\* The call returns result to its caller.
Return(call, result) == [call EXCEPT !.pc = "done", !.result = result]

\* .unwrap() of an Err: the call panics and returns nothing.
Panic(call) == [call EXCEPT !.pc = "panic"]

\* Mutant of is_success: only 200 counts as success.
is_success_ok_only(status) == status = OK

\* StatusCode::is_success
is_success(status) == 200 <= status /\ status < 300

\* The response arrived with its status; the body is still to be read.
Await(call, pc, response, T) ==
    [call EXCEPT !.pc = pc, !.response = response, !.decode = T]

\* The type a body text deserializes into ("" when into none).
Shape(text) ==
    CASE text = LabelsDoc -> "LabelsResponse"
      [] text = LabelDoc -> "LabelResponse"
      [] text = TasksDoc -> "Tasks"
      [] OTHER -> ""

\* Mutant of ResponseJson: a body that does not deserialize is swallowed
\* and a default value returned.
ResponseJson_swallow(call) == Return(call, Ok(call.decode, "default"))

\* response.json::<T>().await.context(ReqwestProcessingSnafu)
ResponseJson(call) ==
    IF call.response.body # Unreadable /\ Shape(call.response.body) = call.decode
    THEN Return(call, Ok(call.decode, call.response.body))
    ELSE Return(call, ReqwestProcessing("json"))

\* response.text().await.context(ReqwestProcessingSnafu)?;
\* HttpSnafu { status, text }.fail()
ResponseText(call) ==
    IF call.response.body # Unreadable
    THEN Return(call, Http(call.response.status, call.response.body))
    ELSE Return(call, ReqwestProcessing("text"))

Init ==
    /\ url \in Urls
    /\ token \in Tokens
    /\ calls = [c \in Calls |-> IdleCall]

(* ----------------------------- label.rs ------------------------------ *)

\* Mutant of get_labels: the formatted URL is stored back into the client.
get_labels_rebase(c, op, org_id) ==
    /\ calls[c].pc = "idle"
    /\ calls' = [calls EXCEPT ![c] =
           Send(Begin(op, [org_id |-> org_id]),
                request("GET", <<url, "/api/v2/labels">>))]
    /\ url' = IF url \in Urls THEN url \o "/api/v2/labels" ELSE url
    /\ UNCHANGED token

\* Client::get_labels: GET {url}/api/v2/labels, with ?orgID= when org_id
\* is Some.
get_labels(c, op, org_id) ==
    /\ calls[c].pc = "idle"
    /\ LET labels_url == <<url, "/api/v2/labels">>
           req == request("GET", labels_url)
       IN calls' = [calls EXCEPT ![c] =
              Send(Begin(op, [org_id |-> org_id]),
                   IF org_id # None THEN WithQuery(req, "orgID", org_id)
                   ELSE req)]
    /\ UNCHANGED <<url, token>>

\* Client::labels
labels(c) == get_labels(c, "labels", None)

\* Client::labels_by_org
labels_by_org(c, In) ==
    \E org_id \in In.strs : get_labels(c, "labels_by_org", org_id)

\* Client::get_labels, from the end of send().await to the status match.
get_labels_response(c, In) ==
    /\ calls[c].pc = "send"
    /\ calls[c].op \in {"labels", "labels_by_org"}
    /\ \E sent_ok \in BOOLEAN,
          response \in [status : In.statuses, body : In.bodies] :
           calls' = [calls EXCEPT ![c] =
               IF ~sent_ok THEN Return(@, ReqwestProcessing("send"))
               ELSE IF response.status = OK
                    THEN Await(@, "json", response, "LabelsResponse")
                    ELSE Await(@, "text", response, "")]
    /\ UNCHANGED <<url, token>>

\* Client::find_label: GET {url}/api/v2/labels/{label_id}.
find_label(c, In) ==
    /\ calls[c].pc = "idle"
    /\ \E label_id \in In.strs :
           LET labels_by_id_url == <<url, "/api/v2/labels", "/", label_id>>
           IN calls' = [calls EXCEPT ![c] =
                  Send(Begin("find_label", [label_id |-> label_id]),
                       request("GET", labels_by_id_url))]
    /\ UNCHANGED <<url, token>>

\* Mutant of find_label_response: any 2xx status is taken as success.
find_label_response_class(c, In) ==
    /\ calls[c].pc = "send"
    /\ calls[c].op = "find_label"
    /\ \E sent_ok \in BOOLEAN,
          response \in [status : In.statuses, body : In.bodies] :
           calls' = [calls EXCEPT ![c] =
               IF ~sent_ok THEN Return(@, ReqwestProcessing("send"))
               ELSE IF is_success(response.status)
                    THEN Await(@, "json", response, "LabelResponse")
                    ELSE Await(@, "text", response, "")]
    /\ UNCHANGED <<url, token>>

\* Client::find_label, from the end of send().await to the status match.
find_label_response(c, In) ==
    /\ calls[c].pc = "send"
    /\ calls[c].op = "find_label"
    /\ \E sent_ok \in BOOLEAN,
          response \in [status : In.statuses, body : In.bodies] :
           calls' = [calls EXCEPT ![c] =
               IF ~sent_ok THEN Return(@, ReqwestProcessing("send"))
               ELSE IF response.status = OK
                    THEN Await(@, "json", response, "LabelResponse")
                    ELSE Await(@, "text", response, "")]
    /\ UNCHANGED <<url, token>>

\* Client::create_label: POST {url}/api/v2/labels with the JSON of a
\* LabelCreateRequest; ser_ok is whether serde_json::to_string returned Ok.
create_label(c, In) ==
    /\ calls[c].pc = "idle"
    /\ \E org_id \in In.strs, name \in In.strs, properties \in In.opts,
          ser_ok \in In.oks :
           LET create_label_url == <<url, "/api/v2/labels">>
               body == [org_id |-> org_id, name |-> name,
                        properties |-> properties]
               call == Serialized(Begin("create_label", body), ser_ok)
           IN calls' = [calls EXCEPT ![c] =
                  IF ~ser_ok THEN Return(call, Serializing)
                  ELSE Send(call, WithBody(request("POST", create_label_url),
                                           LabelCreateRequestJson(body)))]
    /\ UNCHANGED <<url, token>>

\* Client::create_label, from the end of send().await to the status match.
create_label_response(c, In) ==
    /\ calls[c].pc = "send"
    /\ calls[c].op = "create_label"
    /\ \E sent_ok \in BOOLEAN,
          response \in [status : In.statuses, body : In.bodies] :
           calls' = [calls EXCEPT ![c] =
               IF ~sent_ok THEN Return(@, ReqwestProcessing("send"))
               ELSE IF response.status = CREATED
                    THEN Await(@, "json", response, "LabelResponse")
                    ELSE Await(@, "text", response, "")]
    /\ UNCHANGED <<url, token>>

\* Client::update_label: PATCH {url}/api/v2/labels/{label_id} with the JSON
\* of a LabelUpdate.
update_label(c, In) ==
    /\ calls[c].pc = "idle"
    /\ \E name \in In.opts, properties \in In.opts, label_id \in In.strs,
          ser_ok \in In.oks :
           LET update_label_url == <<url, "/api/v2/labels", "/", label_id>>
               body == [name |-> name, properties |-> properties]
               call == Serialized(Begin("update_label",
                                        [name |-> name,
                                         properties |-> properties,
                                         label_id |-> label_id]), ser_ok)
           IN calls' = [calls EXCEPT ![c] =
                  IF ~ser_ok THEN Return(call, Serializing)
                  ELSE Send(call, WithBody(request("PATCH", update_label_url),
                                           LabelUpdateJson(body)))]
    /\ UNCHANGED <<url, token>>

\* Mutant of update_label_response: a failed send is retried.
update_label_response_retry(c, In) ==
    /\ calls[c].pc = "send"
    /\ calls[c].op = "update_label"
    /\ Len(calls[c].sent) < 3
    /\ \E sent_ok \in BOOLEAN,
          response \in [status : In.statuses, body : In.bodies] :
           calls' = [calls EXCEPT ![c] =
               IF ~sent_ok THEN Send(@, @.sent[1])
               ELSE IF response.status = OK
                    THEN Await(@, "json", response, "LabelResponse")
                    ELSE Await(@, "text", response, "")]
    /\ UNCHANGED <<url, token>>

\* Client::update_label, from the end of send().await to the status match.
update_label_response(c, In) ==
    /\ calls[c].pc = "send"
    /\ calls[c].op = "update_label"
    /\ \E sent_ok \in BOOLEAN,
          response \in [status : In.statuses, body : In.bodies] :
           calls' = [calls EXCEPT ![c] =
               IF ~sent_ok THEN Return(@, ReqwestProcessing("send"))
               ELSE IF response.status = OK
                    THEN Await(@, "json", response, "LabelResponse")
                    ELSE Await(@, "text", response, "")]
    /\ UNCHANGED <<url, token>>

\* Client::delete_label: DELETE {url}/api/v2/labels/{label_id}.
delete_label(c, In) ==
    /\ calls[c].pc = "idle"
    /\ \E label_id \in In.strs :
           LET delete_label_url == <<url, "/api/v2/labels", "/", label_id>>
           IN calls' = [calls EXCEPT ![c] =
                  Send(Begin("delete_label", [label_id |-> label_id]),
                       request("DELETE", delete_label_url))]
    /\ UNCHANGED <<url, token>>

\* Client::delete_label, from the end of send().await to the status match.
delete_label_response(c, In) ==
    /\ calls[c].pc = "send"
    /\ calls[c].op = "delete_label"
    /\ \E sent_ok \in BOOLEAN,
          response \in [status : In.statuses, body : In.bodies] :
           calls' = [calls EXCEPT ![c] =
               IF ~sent_ok THEN Return(@, ReqwestProcessing("send"))
               ELSE IF response.status = NO_CONTENT
                    THEN Return([@ EXCEPT !.response = response], Ok("()", "()"))
                    ELSE Await(@, "text", response, "")]
    /\ UNCHANGED <<url, token>>

(* ------------------------------ task.rs ------------------------------- *)

\* Mutant of list_tasks: unwrap_or_default() in place of unwrap().
list_tasks_unwrap_or_default(c, In) ==
    /\ calls[c].pc = "idle"
    /\ \E req \in In.list, qs_ok \in In.oks :
           LET call == Serialized(Begin("list_tasks", req), qs_ok)
               qs == IF qs_ok THEN serde_qs_to_string(req) ELSE <<>>
               target == IF qs = <<>> THEN <<url, "/api/v2/tasks">>
                         ELSE <<url, "/api/v2/tasks", "?">> \o qs
           IN calls' = [calls EXCEPT ![c] = Send(call, request("GET", target))]
    /\ UNCHANGED <<url, token>>

\* Client::list_tasks: GET {url}/api/v2/tasks[?qs]; qs_ok is whether
\* serde_qs::to_string returned Ok (the code unwraps it).
list_tasks(c, In) ==
    /\ calls[c].pc = "idle"
    /\ \E req \in In.list, qs_ok \in In.oks :
           LET call == Serialized(Begin("list_tasks", req), qs_ok)
               qs == serde_qs_to_string(req)
               target == IF qs = <<>> THEN <<url, "/api/v2/tasks">>
                         ELSE <<url, "/api/v2/tasks", "?">> \o qs
           IN calls' = [calls EXCEPT ![c] =
                  IF ~qs_ok THEN Panic(call)
                  ELSE Send(call, request("GET", target))]
    /\ UNCHANGED <<url, token>>

\* Client::list_tasks, from the end of send().await to the status check.
list_tasks_response(c, In) ==
    /\ calls[c].pc = "send"
    /\ calls[c].op = "list_tasks"
    /\ \E sent_ok \in BOOLEAN,
          response \in [status : In.statuses, body : In.bodies] :
           calls' = [calls EXCEPT ![c] =
               IF ~sent_ok THEN Return(@, ReqwestProcessing("send"))
               ELSE IF ~is_success(response.status)
                    THEN Await(@, "text", response, "")
                    ELSE Await(@, "json", response, "Tasks")]
    /\ UNCHANGED <<url, token>>

\* Mutant of create_task: the request is built without Client::request.
create_task_unauthenticated(c, In) ==
    /\ calls[c].pc = "idle"
    /\ \E req \in In.create, ser_ok \in In.oks :
           LET target == <<url, "/api/v2/tasks">>
               call == Serialized(Begin("create_task", req), ser_ok)
           IN calls' = [calls EXCEPT ![c] =
                  IF ~ser_ok THEN Return(call, Serializing)
                  ELSE Send(call, [method |-> "POST", url |-> target,
                                   authorization |-> "",
                                   body |-> CreateTaskRequestJson(req)])]
    /\ UNCHANGED <<url, token>>

\* Client::create_task: POST {url}/api/v2/tasks with the JSON of the
\* CreateTaskRequest.
create_task(c, In) ==
    /\ calls[c].pc = "idle"
    /\ \E req \in In.create, ser_ok \in In.oks :
           LET target == <<url, "/api/v2/tasks">>
               call == Serialized(Begin("create_task", req), ser_ok)
           IN calls' = [calls EXCEPT ![c] =
                  IF ~ser_ok THEN Return(call, Serializing)
                  ELSE Send(call, WithBody(request("POST", target),
                                           CreateTaskRequestJson(req)))]
    /\ UNCHANGED <<url, token>>

\* Client::create_task, from the end of send().await to the status check.
create_task_response(c, In) ==
    /\ calls[c].pc = "send"
    /\ calls[c].op = "create_task"
    /\ \E sent_ok \in BOOLEAN,
          response \in [status : In.statuses, body : In.bodies] :
           calls' = [calls EXCEPT ![c] =
               IF ~sent_ok THEN Return(@, ReqwestProcessing("send"))
               ELSE IF ~is_success(response.status)
                    THEN Await(@, "text", response, "")
                    ELSE Return([@ EXCEPT !.response = response], Ok("()", "()"))]
    /\ UNCHANGED <<url, token>>

\* Client::delete_task: DELETE {url}/api/v2/tasks/{task_id}.
delete_task(c, In) ==
    /\ calls[c].pc = "idle"
    /\ \E task_id \in In.strs :
           LET target == <<url, "/api/v2/tasks", "/", task_id>>
           IN calls' = [calls EXCEPT ![c] =
                  Send(Begin("delete_task", [task_id |-> task_id]),
                       request("DELETE", target))]
    /\ UNCHANGED <<url, token>>

\* Mutant of delete_task_response: the body of a success is deserialized.
delete_task_response_decode(c, In) ==
    /\ calls[c].pc = "send"
    /\ calls[c].op = "delete_task"
    /\ \E sent_ok \in BOOLEAN,
          response \in [status : In.statuses, body : In.bodies] :
           calls' = [calls EXCEPT ![c] =
               IF ~sent_ok THEN Return(@, ReqwestProcessing("send"))
               ELSE IF ~is_success(response.status)
                    THEN Await(@, "text", response, "")
                    ELSE Await(@, "json", response, "Tasks")]
    /\ UNCHANGED <<url, token>>

\* Client::delete_task, from the end of send().await to the status check.
delete_task_response(c, In) ==
    /\ calls[c].pc = "send"
    /\ calls[c].op = "delete_task"
    /\ \E sent_ok \in BOOLEAN,
          response \in [status : In.statuses, body : In.bodies] :
           calls' = [calls EXCEPT ![c] =
               IF ~sent_ok THEN Return(@, ReqwestProcessing("send"))
               ELSE IF ~is_success(response.status)
                    THEN Await(@, "text", response, "")
                    ELSE Return([@ EXCEPT !.response = response], Ok("()", "()"))]
    /\ UNCHANGED <<url, token>>

(* ------------------------- the awaited bodies ------------------------- *)

\* response.json::<T>().await completes.
json_await(c) ==
    /\ calls[c].pc = "json"
    /\ calls' = [calls EXCEPT ![c] = ResponseJson(@)]
    /\ UNCHANGED <<url, token>>

\* response.text().await completes and the Http error is returned.
text_await(c) ==
    /\ calls[c].pc = "text"
    /\ calls' = [calls EXCEPT ![c] = ResponseText(@)]
    /\ UNCHANGED <<url, token>>

\* The caller has the outcome of the call and may make its next call.
Finish(c) ==
    /\ calls[c].pc \in {"done", "panic"}
    /\ calls' = [calls EXCEPT ![c] = IdleCall]
    /\ UNCHANGED <<url, token>>

(* --------------------------- specifications --------------------------- *)

\* One step of call c.  The inputs of its operations are drawn from In:
\* In.strs (string arguments), In.opts (optional string arguments), In.list
\* and In.create (request structs), In.oks (outcomes of a serializer),
\* In.statuses and In.bodies (responses).
Step(c, In) ==
    \/ labels(c)
    \/ labels_by_org(c, In)
    \/ get_labels_response(c, In)
    \/ find_label(c, In)
    \/ find_label_response(c, In)
    \/ create_label(c, In)
    \/ create_label_response(c, In)
    \/ update_label(c, In)
    \/ update_label_response(c, In)
    \/ delete_label(c, In)
    \/ delete_label_response(c, In)
    \/ list_tasks(c, In)
    \/ list_tasks_response(c, In)
    \/ create_task(c, In)
    \/ create_task_response(c, In)
    \/ delete_task(c, In)
    \/ delete_task_response(c, In)
    \/ json_await(c)
    \/ text_await(c)
    \/ Finish(c)

\* Every input within the bounds.
AllInputs ==
    [strs |-> Strs, opts |-> Opt(Strs), list |-> ListTasksRequest(Strs),
     create |-> CreateTaskRequest(Strs), oks |-> BOOLEAN,
     statuses |-> Statuses, bodies |-> Bodies]

\* One caller making one call after another.
Next == Step(1, AllInputs)

Spec == Init /\ [][Next]_vars

ConcStrs == {"s1"}

\* The inputs of concurrent calls: one value for each argument, list and
\* create requests with no optional field but the organization id, a
\* matching and a mismatching status.
ConcInputs ==
    [strs |-> ConcStrs, opts |-> {None},
     list |-> {r \in ListTasksRequest(ConcStrs) :
                  \A f \in ListTasksFields \ {"org_id"} : r[f] = None},
     create |-> {r \in CreateTaskRequest(ConcStrs) :
                    r.description = None /\ r.org = None /\ r.status = None},
     oks |-> {TRUE}, statuses |-> {OK, 404}, bodies |-> {LabelDoc}]

\* Calls made concurrently on the same client.
NextConc == \E c \in Calls : Step(c, ConcInputs)

SpecConc == Init /\ [][NextConc]_vars

(* ------------------------------- claims ------------------------------- *)

LabelOps ==
    {"labels", "labels_by_org", "find_label", "create_label", "update_label",
     "delete_label"}

TaskOps == {"list_tasks", "create_task", "delete_task"}

\* The success status the interface table gives each operation.
ExpectedStatus(op) ==
    CASE op \in {"labels", "labels_by_org", "find_label", "update_label",
                 "list_tasks"} -> 200
      [] op \in {"create_label", "create_task"} -> 201
      [] OTHER -> 204

\* The typed result of each operation.
ResultType(op) ==
    CASE op \in {"labels", "labels_by_org"} -> "LabelsResponse"
      [] op \in {"find_label", "create_label", "update_label"} -> "LabelResponse"
      [] op = "list_tasks" -> "Tasks"
      [] OTHER -> "()"

\* The method and the path the interface table gives each operation.
MethodOf(op) ==
    CASE op \in {"labels", "labels_by_org", "find_label", "list_tasks"} -> "GET"
      [] op \in {"create_label", "create_task"} -> "POST"
      [] op = "update_label" -> "PATCH"
      [] OTHER -> "DELETE"

PathOf(op) == IF op \in LabelOps THEN "/api/v2/labels" ELSE "/api/v2/tasks"

\* A response reached the call.
Received(call) == call.response.status # 0

\* The call returned after a response reached it.
Answered(call) == call.pc = "done" /\ Received(call)

\* C1 as stated: a label operation returns its typed success only on its
\* expected status, and on every other status returns the Http error
\* carrying that status and the body text.
C1_ExactStatusOrHttpError ==
    \A c \in Calls :
        LET call == calls[c]
        IN (Answered(call) /\ call.op \in LabelOps) =>
            /\ call.result.kind = "Ok" =>
                   /\ call.response.status = ExpectedStatus(call.op)
                   /\ call.result.type = ResultType(call.op)
            /\ call.response.status # ExpectedStatus(call.op) =>
                   call.result = Http(call.response.status, call.response.body)

\* C1 as amended: a label operation returns its typed success only on its
\* expected status; on every other status it returns the Http error carrying
\* that status and the body text when the body could be read, and the
\* ReqwestProcessing error of the failed read when it could not.
C1_ExactStatusOrHttpErrorIfBodyRead ==
    \A c \in Calls :
        LET call == calls[c]
        IN (Answered(call) /\ call.op \in LabelOps) =>
            /\ call.result.kind = "Ok" =>
                   /\ call.response.status = ExpectedStatus(call.op)
                   /\ call.result.type = ResultType(call.op)
            /\ call.response.status # ExpectedStatus(call.op) =>
                   IF call.response.body \in Texts
                   THEN call.result =
                            Http(call.response.status, call.response.body)
                   ELSE call.result = ReqwestProcessing("text")

\* A label deletion answered 202, another 2xx status, returned the Http
\* error with that status and text.
C1_Witness ==
    \E c \in Calls :
        /\ Answered(calls[c])
        /\ calls[c].op = "delete_label"
        /\ calls[c].response = [status |-> 202, body |-> "not json"]
        /\ calls[c].result = Http(202, "not json")

C3_SentExactlyOnce ==
    \A c \in Calls :
        LET call == calls[c]
        IN /\ Len(call.sent) <= 1
           /\ call.pc \in {"send", "json", "text"} => Len(call.sent) = 1
           /\ call.pc = "done" =>
                  Len(call.sent) = IF call.ser = "Err" THEN 0 ELSE 1
           /\ call.pc = "panic" => Len(call.sent) = 0
           /\ Len(call.sent) = 1 =>
                  /\ call.sent[1].method = MethodOf(call.op)
                  /\ SubSeq(call.sent[1].url, 1, 2) = <<url, PathOf(call.op)>>

\* A call whose success body failed to deserialize ended with exactly one
\* request sent.
C3_Witness ==
    \E c \in Calls :
        /\ calls[c].pc = "done"
        /\ calls[c].result.kind = "ReqwestProcessing"
        /\ calls[c].result.source = "json"
        /\ Len(calls[c].sent) = 1

\* C4: every request a call sent carries the Authorization header
\* "Token <token>" of the client's token.
C4_AuthorizationHeader ==
    \A c \in Calls :
        \A i \in 1..Len(calls[c].sent) :
            calls[c].sent[i].authorization = "Token " \o token

\* A task creation sent its request on a client made with another token.
C4_Witness ==
    \E c \in Calls :
        /\ calls[c].op = "create_task"
        /\ Len(calls[c].sent) = 1
        /\ token = "other-token"
        /\ calls[c].sent[1].authorization = "Token other-token"

\* The JSON key of each field of the request bodies.
BodyKeys(op) ==
    CASE op = "create_label" ->
             {<<"org_id", "orgID">>, <<"name", "name">>,
              <<"properties", "properties">>}
      [] op = "update_label" ->
             {<<"name", "name">>, <<"properties", "properties">>}
      [] op = "create_task" ->
             {<<"flux", "flux">>, <<"description", "description">>,
              <<"org", "org">>, <<"org_id", "orgID">>, <<"status", "status">>}
      [] OTHER -> {}

\* The members (key, value) of a JSON object text.
JsonMembers(body) ==
    {<<body[i - 1], body[i + 1]>> : i \in {j \in 2..(Len(body) - 1) : body[j] = ":"}}

\* C5: the body of create_label, update_label and create_task has a member
\* for each field that is present, required or optional, with its value, and
\* none for an absent field (no null); update_label with no field sends {}.
C5_BodyOmitsAbsentFields ==
    \A c \in Calls :
        LET call == calls[c]
        IN (Len(call.sent) = 1 /\ BodyKeys(call.op) # {}) =>
            LET body == call.sent[1].body
            IN /\ JsonMembers(body) =
                      {<<k[2], call.args[k[1]]>> :
                          k \in {kk \in BodyKeys(call.op) : call.args[kk[1]] # None}}
               /\ \A i \in 1..Len(body) : body[i] # "null"
               /\ Head(body) = "{" /\ body[Len(body)] = "}"
               /\ (call.op = "update_label" /\ call.args.name = None
                   /\ call.args.properties = None) => body = <<"{", "}">>

\* A task creation with only flux and the organization id sent exactly
\* those two members, and an update with no field sent {}.
C5_Witness ==
    \E c \in Calls :
        /\ Len(calls[c].sent) = 1
        /\ calls[c].op = "create_task"
        /\ calls[c].args.org_id # None
        /\ calls[c].args.description = None
        /\ calls[c].args.org = None
        /\ calls[c].args.status = None
        /\ calls[c].sent[1].body =
               <<"{", "flux", ":", calls[c].args.flux, ",", "orgID", ":",
                 calls[c].args.org_id, "}">>

\* The query key of each filter of the list operations.
QueryKeys(op) ==
    CASE op = "list_tasks" ->
             {<<"after", "after">>, <<"limit", "limit">>, <<"name", "name">>,
              <<"org", "org">>, <<"org_id", "orgID">>, <<"status", "status">>,
              <<"type_", "type">>, <<"user", "user">>}
      [] op \in {"labels", "labels_by_org"} -> {<<"org_id", "orgID">>}
      [] OTHER -> {}

\* The parameters (key, value) of a URL.
QueryParams(target) ==
    {<<target[i - 1], target[i + 1]>> :
        i \in {j \in 2..(Len(target) - 1) : target[j] = "="}}

\* C6: the URL of a list request has a query parameter for exactly the
\* filters that are present, each under its external key (orgID for the
\* organization id), and has a "?" if and only if some filter is present.
C6_QueryOmitsAbsentFilters ==
    \A c \in Calls :
        LET call == calls[c]
        IN (Len(call.sent) = 1 /\ QueryKeys(call.op) # {}) =>
            LET target == call.sent[1].url
                present == {k \in QueryKeys(call.op) : call.args[k[1]] # None}
            IN /\ QueryParams(target) =
                      {<<k[2], call.args[k[1]]>> : k \in present}
               /\ Cardinality({i \in 1..Len(target) : target[i] = "?"}) =
                      IF present = {} THEN 0 ELSE 1
               /\ Cardinality({i \in 1..Len(target) : target[i] = "="}) =
                      Cardinality(present)

\* A task list filtered by organization id and type sent
\* ?orgID=..&type=.., and one with no filter sent no "?".
C6_Witness ==
    \E c \in Calls :
        /\ Len(calls[c].sent) = 1
        /\ calls[c].op = "list_tasks"
        /\ calls[c].args.org_id # None
        /\ calls[c].args.type_ # None
        /\ calls[c].sent[1].url =
               <<url, "/api/v2/tasks", "?", "orgID", "=", calls[c].args.org_id,
                 "&", "type", "=", calls[c].args.type_>>

\* The statuses an operation takes as success: its one expected status for
\* a label operation, the 2xx class for a task operation.
Accepted(op, status) ==
    IF op \in LabelOps THEN status = ExpectedStatus(op) ELSE status \in 200..299

\* The call ended because its send failed.
SendFailed(call) ==
    call.pc = "done" /\ Len(call.sent) = 1 /\ ~Received(call)

\* The call read a body whole and could not deserialize it.
DeserializeFailed(call) ==
    /\ call.pc = "done"
    /\ call.decode # ""
    /\ call.response.body \in Texts
    /\ Shape(call.response.body) # call.decode

\* C7 as stated: a failure is returned as a typed error, and a success body
\* that does not deserialize returns an error of another kind than a failed
\* send does.
C7_FourErrorKinds ==
    \A c \in Calls :
        /\ calls[c].pc = "done" => calls[c].result.kind # "None"
        /\ DeserializeFailed(calls[c]) =>
               /\ calls[c].result.kind # "Ok"
               /\ calls[c].result.kind # ReqwestProcessing("send").kind

\* C7 as amended: a call that returns a failure returns one of three kinds
\* of RequestError: Serializing exactly when its body failed to serialize,
\* Http exactly when the status was not accepted and the body was read, and
\* ReqwestProcessing for a failed send, a body that could not be read and a
\* success body that does not deserialize alike, which differ only in the
\* wrapped source; the one failure that is not returned is list_tasks's
\* query string failing to serialize, which panics.
C7_ThreeErrorKinds ==
    \A c \in Calls :
        LET call == calls[c]
        IN /\ call.pc = "panic" => (call.op = "list_tasks" /\ call.ser = "Err")
           /\ call.pc = "done" =>
                  /\ call.result.kind \in
                         {"Ok", "ReqwestProcessing", "Serializing", "Http"}
                  /\ call.result.kind = "Serializing" <=> call.ser = "Err"
                  /\ call.result.kind = "Http" <=>
                         /\ Received(call)
                         /\ ~Accepted(call.op, call.response.status)
                         /\ call.response.body \in Texts
                  /\ SendFailed(call) => call.result = ReqwestProcessing("send")
                  /\ DeserializeFailed(call) =>
                         /\ call.result = ReqwestProcessing("json")
                         /\ call.result.kind = ReqwestProcessing("send").kind
                  /\ (Received(call) /\ call.response.body = Unreadable
                      /\ call.result.kind # "Ok") =>
                         call.result.kind = "ReqwestProcessing"

\* A task list answered 204 with a body that is no JSON returned the
\* ReqwestProcessing error.
C7_Witness ==
    \E c \in Calls :
        /\ DeserializeFailed(calls[c])
        /\ calls[c].op = "list_tasks"
        /\ calls[c].response = [status |-> 204, body |-> "not json"]
        /\ calls[c].result.kind = "ReqwestProcessing"

\* C8: no step changes the client's url or token, a step of one call leaves
\* every other call as it was, and two calls of the same operation with the
\* same arguments and the same response return the same result.
C8_CallsIndependent ==
    /\ [][/\ url' = url
          /\ token' = token
          /\ \A c1, c2 \in Calls :
                 c1 # c2 => (calls'[c1] = calls[c1] \/ calls'[c2] = calls[c2])]_vars
    /\ [](\A c1, c2 \in Calls :
              (/\ calls[c1].pc = "done"
               /\ calls[c2].pc = "done"
               /\ calls[c1].op = calls[c2].op
               /\ calls[c1].args = calls[c2].args
               /\ calls[c1].ser = calls[c2].ser
               /\ calls[c1].response = calls[c2].response)
              => calls[c1].result = calls[c2].result)

\* One call returned an Http error while another call, made before the
\* first returned, was still waiting for its body.
C8_Witness ==
    \E c1, c2 \in Calls :
        /\ c1 # c2
        /\ calls[c1].pc = "done"
        /\ calls[c1].result.kind = "Http"
        /\ calls[c2].pc = "json"
        /\ url \in Urls
        /\ token \in Tokens

\* The body was read whole and is no JSON document or, for an operation
\* with a typed result, not a document of its type.
Malformed(op, body) ==
    /\ body \in Texts
    /\ IF ResultType(op) = "()" THEN Shape(body) = ""
       ELSE Shape(body) # ResultType(op)

\* C9 as stated: on its success status a delete returns unit success
\* whatever the body, and every other operation, create_task too, returns
\* success only if the body deserializes.
C9_SuccessBodyDeserialized ==
    \A c \in Calls :
        LET call == calls[c]
        IN (Answered(call) /\ call.response.status = ExpectedStatus(call.op)) =>
            IF call.op \in {"delete_label", "delete_task"}
            THEN call.result = Ok("()", "()")
            ELSE Malformed(call.op, call.response.body) =>
                     call.result.kind \notin {"Ok", "None"}

\* C9 as amended: on a status the operation accepts, delete_label,
\* delete_task and create_task return unit success without reading the
\* body; labels, labels_by_org, find_label, create_label, update_label and
\* list_tasks return the body deserialized into their type, and an error,
\* never a success, when the body cannot be read or does not deserialize.
C9_SuccessBodyDeserializedUnlessUnit ==
    \A c \in Calls :
        LET call == calls[c]
        IN (Answered(call) /\ Accepted(call.op, call.response.status)) =>
            IF call.op \in {"delete_label", "delete_task", "create_task"}
            THEN call.result = Ok("()", "()")
            ELSE IF Shape(call.response.body) = ResultType(call.op)
                 THEN call.result = Ok(ResultType(call.op), call.response.body)
                 ELSE call.result.kind = "ReqwestProcessing"

\* A label creation answered 201 with a body of another shape returned an
\* error.
C9_Witness ==
    \E c \in Calls :
        /\ Answered(calls[c])
        /\ calls[c].op = "create_label"
        /\ calls[c].response = [status |-> 201, body |-> TasksDoc]
        /\ calls[c].result.kind = "ReqwestProcessing"

\* The operations that serialize a body or a query string.
SerializingOps == {"create_label", "update_label", "create_task", "list_tasks"}

\* C10 as stated: a call whose serializer failed returns the Serializing
\* error and has sent nothing, and a request is sent only after its body or
\* its query string was serialized.
C10_SerializeErrorReturned ==
    \A c \in Calls :
        LET call == calls[c]
        IN /\ call.ser = "Err" =>
                  /\ call.pc = "done"
                  /\ call.result = Serializing
                  /\ call.sent = <<>>
           /\ (call.sent # <<>> /\ call.op \in SerializingOps) => call.ser = "Ok"

\* C10 as amended: a request is sent only after its body or its query
\* string was serialized, and a call whose serializer failed has sent
\* nothing; create_label, update_label and create_task then return the
\* Serializing error, and list_tasks panics and returns nothing.
C10_SerializeErrorReturnedOrPanic ==
    \A c \in Calls :
        LET call == calls[c]
        IN /\ call.ser = "Err" =>
                  /\ call.sent = <<>>
                  /\ IF call.op = "list_tasks"
                     THEN call.pc = "panic" /\ call.result = NoResult
                     ELSE call.pc = "done" /\ call.result = Serializing
           /\ (call.sent # <<>> /\ call.op \in SerializingOps) => call.ser = "Ok"

\* A task creation whose body failed to serialize returned the Serializing
\* error with nothing sent.
C10_Witness ==
    \E c \in Calls :
        /\ calls[c].op = "create_task"
        /\ calls[c].ser = "Err"
        /\ calls[c].pc = "done"
        /\ calls[c].result = Serializing
        /\ calls[c].sent = <<>>

====
